---- MODULE Spec2Model ----
(***************************************************************************)
(* A model of foc::HashArrayMappedTrie (hash_array_mapped_trie.h): the     *)
(* bitmap-compressed 32-way trie, its hash schedule with reseeding, the    *)
(* tagged nodes with their parent back-pointers, and the array sizing      *)
(* policy.  Memory is modelled explicitly: every child array is a block    *)
(* of the heap, and a Node* is the pair <<block, index>>.                  *)
(***************************************************************************)
EXTENDS Integers, Sequences, FiniteSets, TLC

(***************************************************************************)
(* Bounds of the model.                                                    *)
(***************************************************************************)
\* Number of call frames of insertEntry the machine stack holds.
MaxDepth == 13
\* Number of child arrays the allocator can hand out before it returns null.
MaxArrays == 20
\* insert is not called once _count has reached this value.
MaxCount == 3

(***************************************************************************)
(* Machine words.  A word is the set of the positions of its 1 bits (bit 0 *)
(* the least significant), so that 32-bit and 64-bit values keep their     *)
(* width.                                                                  *)
(***************************************************************************)
Pow2(n) == 2 ^ n

\* The 16-bit limbs <<l0, l1, ...>> (least significant first) as a word.
FromLimbs(limbs) ==
  {i \in 0..(16 * Len(limbs) - 1) : (limbs[(i \div 16) + 1] \div Pow2(i % 16)) % 2 = 1}

\* static_cast<uint32_t>: keep the low 32 bits.
Trunc32(w) == {i \in 0..31 : i \in w}

\* Integral promotion of a uint32_t to a 64-bit size_t: the high bits are 0.
Zext64(w) == {i \in 0..63 : i < 32 /\ i \in w}

\* a ^ b
XOR(a, b) == {i \in 0..63 : (i \in a) # (i \in b)}

\* w << n and w >> n on uint32_t
SHL(w, n) == {i \in 0..31 : (i - n) \in w}

SHR(w, n) == {i \in 0..31 : (i + n) \in w}

\* (hash >> hash_offset) & 0x1f
Slice(hash, hash_offset) ==
  LET bit(j) == IF (hash_offset + j) \in hash THEN 1 ELSE 0
  IN bit(0) + 2 * bit(1) + 4 * bit(2) + 8 * bit(3) + 16 * bit(4)

(***************************************************************************)
(* Hashers (hash_array_mapped_trie_test_helpers.h) and seeds.              *)
(***************************************************************************)
\* (size_t)key for a key in 0 .. 2^31 - 1
KeyWord(key) == FromLimbs(<<key % 65536, key \div 65536, 0, 0>>)

IdentityFunction(key) == KeyWord(key)

\* 0x383f9f3a3b3c3d3f
ConstantFunction(key) == FromLimbs(<<15679, 15164, 40762, 14399>>)

\* ((size_t)key % 1024) * 0x3f3f3f3f, as p + (p << 16) with p = (key % 1024) * 0x3f3f
BadHashFunction(key) ==
  LET p == (key % 1024) * 16191
      s1 == (p \div 65536) + (p % 65536)
  IN FromLimbs(<<p % 65536, s1 % 65536, (p \div 65536) + (s1 \div 65536), 0>>)

Hashers == {"IdentityFunction", "ConstantFunction", "BadHashFunction"}

Hash(hf, key) ==
  CASE hf = "IdentityFunction" -> IdentityFunction(key)
    [] hf = "ConstantFunction" -> ConstantFunction(key)
    [] hf = "BadHashFunction" -> BadHashFunction(key)

\* static_cast<uint32_t>(FOC_GET_HASH_SEED), FOC_GET_HASH_SEED = 0xff51afd7ed558ccd
DefaultSeed == Trunc32(FromLimbs(<<36045, 60757, 45015, 65361>>))

\* The keys the operations are called with, by hasher.  Under the identity
\* hasher: keys in different root slots (0, 1, 2), keys that share the root
\* slot and part ways one level down (0, 32), five levels down (0, 2^25), and
\* only in bit 30 (0, 2^30).  Under BadHashFunction 0, 32 and 64 share the
\* root slot and part ways one level down, 0 and 1024 hash to the same value.
\* Under the constant hasher: 32 distinct keys.
KeysOf(hf) ==
  CASE hf = "IdentityFunction" -> {0, 1, 2, 32, 33554432, 1073741824}
    [] hf = "ConstantFunction" -> 0..31
    [] hf = "BadHashFunction" -> {0, 32, 64, 1024}

\* The values the entries are inserted with.
Vals == {1, 2}

\* uint32_t next_seed(uint32_t seed)
next_seed(seed) ==
  LET a == XOR(seed, SHL(seed, 13))
      b == XOR(a, SHR(a, 17))
  IN XOR(b, SHL(b, 5))

\* uint32_t hash32(const Key &key, uint32_t seed): seed ^ _hasher(key), truncated
hash32(hf, key, seed) == Trunc32(XOR(Zext64(seed), Hash(hf, key)))

(***************************************************************************)
(* Memory.  The heap maps each block the allocator has handed out and not  *)
(* got back to the child array in it; <<b, i>> is the address of cell i of *)
(* block b.  The HAMT's own _root member has the address RootPtr.          *)
(***************************************************************************)
Blocks == 1..MaxArrays

\* The null array pointer (a BitmapTrie's _base) and the null Node*.
NullBase == 0
Null == <<-1, 0>>
RootPtr == <<0, 0>>
\* The address of the _root member of the second HashArrayMappedTrie.
OtherPtr == <<0, 1>>

\* A cell of an array that holds no constructed Node.
Uninit == [kind |-> "uninit"]

\* NodeTemplate(const Entry &entry, NodeTemplate *parent): parent | 0x1, then the entry
EntryNode(entry, parent) ==
  [kind |-> "entry", parent |-> parent, key |-> entry.key, val |-> entry.val]

\* A node that is a trie: the tag bit of _parent is clear, the union holds a BitmapTrie.
TrieNode(parent, bitmap, capacity, base) ==
  [kind |-> "trie", parent |-> parent, bitmap |-> bitmap, capacity |-> capacity,
   base |-> base]

\* bool isEntry() / bool isTrie(): the low bit of _parent
isEntry(node) == node.kind = "entry"
isTrie(node) == node.kind = "trie"

\* An operator=(NodeTemplate &&) without its else branch: of a trie only
\* _parent arrives.
MoveNode_Mut(other) ==
  IF isEntry(other)
    THEN EntryNode([key |-> other.key, val |-> other.val], other.parent)
    ELSE TrieNode(other.parent, {}, 0, NullBase)

\* NodeTemplate &operator=(NodeTemplate &&other): _parent (with its tag) is copied,
\* then the entry or the trie triple; nothing else is touched.
MoveNode(other) ==
  IF isEntry(other)
    THEN EntryNode([key |-> other.key, val |-> other.val], other.parent)
    ELSE TrieNode(other.parent, other.bitmap, other.capacity, other.base)

\* *p for a Node *p
GetNode(m, p) ==
  IF p = RootPtr THEN m.root
  ELSE IF p = OtherPtr THEN m.other
  ELSE m.heap[p[1]].cells[p[2] + 1]

\* *p = node
SetNode(m, p, node) ==
  IF p = RootPtr THEN [m EXCEPT !.root = node]
  ELSE IF p = OtherPtr THEN [m EXCEPT !.other = node]
  ELSE [m EXCEPT !.heap[p[1]].cells[p[2] + 1] = node]

\* uint32_t physicalIndex(uint32_t logical_index): popcount(_bitmap & (_bitmask - 1))
physicalIndex(bitmap, logical_index) == Cardinality({j \in bitmap : j < logical_index})

\* bool logicalPositionTaken(uint32_t logical_index)
logicalPositionTaken(bitmap, logical_index) == logical_index \in bitmap

\* uint32_t size(): popcount(_bitmap)
size(bitmap) == Cardinality(bitmap)

\* Node &logicalGet(uint32_t i), as an address: &_base[physicalIndex(i)]
logicalGet(trie, logical_index) == <<trie.base, physicalIndex(trie.bitmap, logical_index)>>

(***************************************************************************)
(* The allocator (allocator.h is not part of the sources): allocate gives  *)
(* a block that is not live, or null when the heap is exhausted or when    *)
(* this is the call chosen to fail; deallocate gives the block back.       *)
(***************************************************************************)
Allocate(m, capacity) ==
  LET free == Blocks \ DOMAIN m.heap
      fails == (m.allocs + 1 = m.failAt) \/ free = {}
      b == CHOOSE x \in free : \A y \in free : x <= y
      array == [cap |-> capacity, cells |-> [i \in 1..capacity |-> Uninit]]
  IN IF fails
       THEN [m |-> [m EXCEPT !.allocs = @ + 1], base |-> NullBase]
       ELSE [m |-> [m EXCEPT !.allocs = @ + 1,
                             !.heap = [x \in DOMAIN m.heap \cup {b} |->
                                         IF x = b THEN array ELSE m.heap[x]]],
             base |-> b]

Deallocate(m, base) ==
  [m EXCEPT !.heap = [x \in DOMAIN m.heap \ {base} |-> m.heap[x]]]

(***************************************************************************)
(* The sizing oracle.                                                      *)
(***************************************************************************)
alloc_sizes_by_level ==
  << <<2, 3, 5, 8, 13, 21, 29, 32, 32, 32, 32, 32, 32, 32, 32, 32, 32, 32, 32, 32, 32, 32, 32>>,
     <<1, 1, 1, 1, 1, 2, 3, 5, 8, 13, 21, 29, 32, 32, 32, 32, 32, 32, 32, 32, 32, 32, 32>>,
     <<1, 1, 1, 1, 1, 1, 1, 1, 1, 1, 2, 3, 5, 8, 13, 21, 29, 32, 32, 32, 32, 32, 32>>,
     <<1, 1, 1, 1, 1, 1, 1, 1, 1, 1, 1, 1, 1, 1, 1, 2, 3, 5, 8, 13, 21, 29, 32>>,
     <<1, 1, 1, 1, 1, 1, 1, 1, 1, 1, 1, 1, 1, 1, 1, 1, 1, 1, 1, 1, 1, 1, 1>> >>

\* alloc_sizes[0..32]
alloc_sizes ==
  <<1, 1, 2, 3, 5, 5, 8, 8, 8, 13, 13, 13, 13, 13, 21, 21, 21, 21, 21, 21, 21, 21,
    29, 29, 29, 29, 29, 29, 29, 29, 32, 32, 32>>

\* A bit count that is one short: 63 - __builtin_clzll(x).
RECURSIVE BitLength_Mut(_)
BitLength_Mut(x) == IF x < 2 THEN 0 ELSE 1 + BitLength_Mut(x \div 2)

\* 64 - __builtin_clzll(x) for x > 0: the number of bits of x
RECURSIVE BitLength(_)
BitLength(x) == IF x = 0 THEN 0 ELSE 1 + BitLength(x \div 2)

\* A sizing oracle that returns its guess without comparing it with required.
hamt_trie_allocation_size_Mut(required, expected_hamt_size, level) ==
  LET lvl == IF level > 4 THEN 4 ELSE level
      generation ==
        IF level > 4 THEN 0
        ELSE IF expected_hamt_size - 1 = 0 THEN 0
        ELSE IF BitLength(expected_hamt_size - 1) > 22 THEN 22
        ELSE BitLength(expected_hamt_size - 1)
  IN alloc_sizes_by_level[lvl + 1][generation + 1]

hamt_trie_allocation_size(required, expected_hamt_size, level) ==
  LET lvl == IF level > 4 THEN 4 ELSE level
      generation ==
        IF level > 4 THEN 0
        ELSE IF expected_hamt_size - 1 = 0 THEN 0
        ELSE IF BitLength(expected_hamt_size - 1) > 22 THEN 22
        ELSE BitLength(expected_hamt_size - 1)
      guess == alloc_sizes_by_level[lvl + 1][generation + 1]
  IN IF required > guess THEN alloc_sizes[required + 1] ELSE guess

(***************************************************************************)
(* BitmapTrieTemplate::insertEntry.  The result says how the call ended:   *)
(* exit "return" with the node returned (Null for nullptr), or the program *)
(* stopped: "nullwrite" (a Node constructed through a null _base) or       *)
(* "overflow" (the call stack is used up).                                 *)
(***************************************************************************)
Return(m, node, cause) == [m |-> m, node |-> node, exit |-> "return", cause |-> cause]
Stop(m, exit) == [m |-> m, node |-> Null, exit |-> exit, cause |-> exit]

\* A BitmapTrieTemplate::insertEntry without "_bitmap |= 0x1 << logical_index".
BitmapTrie_insertEntry_Mut(m, trie_node, logical_index, new_entry, parent, expected_hamt_size, level) ==
  LET trie == GetNode(m, trie_node)
      i == physicalIndex(trie.bitmap, logical_index)
      sz == size(trie.bitmap)
      required == sz + 1
      leaf == EntryNode(new_entry, parent)
      marked == trie.bitmap
  IN
  IF required > trie.capacity THEN
    LET alloc_size == hamt_trie_allocation_size(required, expected_hamt_size, level)
        a == Allocate(m, alloc_size)
        new_base == a.base
    IN
    IF new_base = NullBase THEN Return(a.m, Null, "alloc")
    ELSE IF trie.base = NullBase THEN
      LET m1 == SetNode(a.m, trie_node,
                        TrieNode(trie.parent, marked, alloc_size, new_base))
      IN Return(SetNode(m1, <<new_base, i>>, leaf), <<new_base, i>>, "new")
    ELSE
      LET old == m.heap[trie.base].cells
          moved == [j \in 1..alloc_size |->
                      IF j - 1 < i THEN MoveNode(old[j])
                      ELSE IF j - 1 = i THEN leaf
                      ELSE IF j - 1 <= sz THEN MoveNode(old[j - 1])
                      ELSE Uninit]
          m1 == [a.m EXCEPT !.heap[new_base].cells = moved]
          m2 == Deallocate(m1, trie.base)
      IN Return(SetNode(m2, trie_node,
                        TrieNode(trie.parent, marked, alloc_size, new_base)),
                <<new_base, i>>, "new")
  ELSE IF trie.base = NullBase THEN Stop(m, "nullwrite")
  ELSE
    LET old == m.heap[trie.base].cells
        shifted == [j \in 1..trie.capacity |->
                      IF j - 1 < i THEN old[j]
                      ELSE IF j - 1 = i THEN leaf
                      ELSE IF j - 1 <= sz THEN MoveNode(old[j - 1])
                      ELSE old[j]]
        m1 == [m EXCEPT !.heap[trie.base].cells = shifted]
    IN Return(SetNode(m1, trie_node,
                      TrieNode(trie.parent, marked, trie.capacity, trie.base)),
              <<trie.base, i>>, "new")

\* Node *BitmapTrieTemplate::insertEntry(allocator, logical_index, new_entry, parent,
\* expected_hamt_size, level)
BitmapTrie_insertEntry(m, trie_node, logical_index, new_entry, parent, expected_hamt_size, level) ==
  LET trie == GetNode(m, trie_node)
      i == physicalIndex(trie.bitmap, logical_index)
      sz == size(trie.bitmap)
      required == sz + 1
      leaf == EntryNode(new_entry, parent)
      marked == trie.bitmap \cup {logical_index}
  IN
  IF required > trie.capacity THEN
    LET alloc_size == hamt_trie_allocation_size(required, expected_hamt_size, level)
        a == Allocate(m, alloc_size)
        new_base == a.base
    IN
    IF new_base = NullBase THEN Return(a.m, Null, "alloc")
    ELSE IF trie.base = NullBase THEN
      LET m1 == SetNode(a.m, trie_node,
                        TrieNode(trie.parent, marked, alloc_size, new_base))
      IN Return(SetNode(m1, <<new_base, i>>, leaf), <<new_base, i>>, "new")
    ELSE
      LET old == m.heap[trie.base].cells
          moved == [j \in 1..alloc_size |->
                      IF j - 1 < i THEN MoveNode(old[j])
                      ELSE IF j - 1 = i THEN leaf
                      ELSE IF j - 1 <= sz THEN MoveNode(old[j - 1])
                      ELSE Uninit]
          m1 == [a.m EXCEPT !.heap[new_base].cells = moved]
          m2 == Deallocate(m1, trie.base)
      IN Return(SetNode(m2, trie_node,
                        TrieNode(trie.parent, marked, alloc_size, new_base)),
                <<new_base, i>>, "new")
  ELSE IF trie.base = NullBase THEN Stop(m, "nullwrite")
  ELSE
    LET old == m.heap[trie.base].cells
        shifted == [j \in 1..trie.capacity |->
                      IF j - 1 < i THEN old[j]
                      ELSE IF j - 1 = i THEN leaf
                      ELSE IF j - 1 <= sz THEN MoveNode(old[j - 1])
                      ELSE old[j]]
        m1 == [m EXCEPT !.heap[trie.base].cells = shifted]
    IN Return(SetNode(m1, trie_node,
                      TrieNode(trie.parent, marked, trie.capacity, trie.base)),
              <<trie.base, i>>, "new")

(***************************************************************************)
(* The state: one HashArrayMappedTrie and the heap its arrays live in.     *)
(***************************************************************************)
VARIABLES
  heap,     \* heap[b]: the array in the live block b
  root,     \* _root
  count,    \* _count
  seed,     \* _seed
  hasher,   \* _hasher: the name of the hash functor
  status,   \* "running", or how the program stopped: "nullwrite", "overflow"
  last,     \* the last call made and what it returned
  run,      \* under ConstantFunction, the number of insert calls made
  cleared,  \* whether clear has been called
  stored,   \* <<k, v>> for the latest insert (k, v) of each key k that returned
            \* a node since the last clear
  other,    \* a second HashArrayMappedTrie in the same heap, or NoOther
  sizing,   \* a call of hamt_trie_allocation_size: its arguments and result
  it        \* a HAMTConstForwardIterator, or NoIterator

vars == <<heap, root, count, seed, hasher, status, last, run, cleared, stored, other, sizing, it>>

\* The heap and the root, as the operations below thread them along; allocs
\* counts the allocator calls of the running operation, the failAt-th of which
\* returns null (0: none does).
Memory(failAt) == [heap |-> heap, root |-> root, allocs |-> 0, failAt |-> failAt]

(***************************************************************************)
(* HashArrayMappedTrie::findNode and find.                                 *)
(***************************************************************************)
\* The value of a one-element set: Pick({e(x) : x \in {a}}) is e(a), with a
\* evaluated once.
Pick(S) == CHOOSE x \in S : TRUE

\* A findNode that takes the leaf its descent ends at without comparing keys.
findNode_entry_Mut(node_ptr, entry_key, key) == node_ptr

\* findNode at an entry: "Keys match!" returns the node, anything else nullptr.
\* _key_equal is std::equal_to<Key>.
findNode_entry(node_ptr, entry_key, key) == IF entry_key = key THEN node_ptr ELSE Null

\* A findNode that reseeds one level before insertEntry does.
findNode_sameHash_Mut(hash_offset) == hash_offset < 20

\* findNode at a trie: LIKELY(hash_offset < 25) takes the next five bits of
\* the same hash, otherwise the hash is computed again with the next seed.
findNode_sameHash(hash_offset) == hash_offset < 25

\* One iteration of the while loop of findNode, and the iterations after it.
RECURSIVE findLoop(_, _, _, _, _, _, _)
findLoop(m, hf, trie, key, sd, hash, hash_offset) ==
  LET t == Slice(hash, hash_offset)
  IN
  IF ~logicalPositionTaken(trie.bitmap, t) THEN Null
  ELSE IF isEntry(GetNode(m, logicalGet(trie, t)))
    THEN findNode_entry(logicalGet(trie, t), GetNode(m, logicalGet(trie, t)).key, key)
  ELSE IF findNode_sameHash(hash_offset)
    THEN Pick({findLoop(m, hf, node, key, sd, hash, hash_offset + 5)
                 : node \in {GetNode(m, logicalGet(trie, t))}})
  ELSE Pick({findLoop(m, hf, node, key, sd2, hash32(hf, key, sd2), 0)
               : node \in {GetNode(m, logicalGet(trie, t))}, sd2 \in {next_seed(sd)}})

\* const Node *findNode(const Key &key)
findNode(m, hf, sd, key) == findLoop(m, hf, m.root, key, sd, hash32(hf, key, sd), 0)

\* const T *find(const Key &key): the value found, 0 for nullptr
find(m, hf, sd, key) ==
  LET node == findNode(m, hf, sd, key)
  IN IF node = Null THEN 0 ELSE GetNode(m, node).val

(***************************************************************************)
(* HashArrayMappedTrie::insertEntry.                                       *)
(***************************************************************************)
RECURSIVE insertEntry(_, _, _, _, _, _, _, _, _)

\* An insertEntry that takes a slice at offset 30 before it reseeds.
insertEntry_sameHash_Mut(hash_offset) == hash_offset < 30

\* insertEntry at a trie or at an entry with another key: LIKELY(hash_offset < 25)
\* takes the next five bits of the same hash, otherwise it reseeds.
insertEntry_sameHash(hash_offset) == hash_offset < 25

\* An insertEntry without the test of the two hashes after reseeding.
insertEntry_collision_Mut(hash, old_entry_hash) == FALSE

\* insertEntry after reseeding at an entry with another key:
\* UNLIKELY(hash == old_entry_hash) gives up with nullptr.
insertEntry_collision(hash, old_entry_hash) == hash = old_entry_hash

\* insertEntry at an entry with the same key: "Keys match! Override the value."
insertEntry_override(m, node_ptr, new_entry) ==
  Return(SetNode(m, node_ptr, [GetNode(m, node_ptr) EXCEPT !.val = new_entry.val]),
         node_ptr, "overwrite")

\* The end of insertEntry, from the test of replaced_node on.
insertEntry_replaced(replaced, hf, cnt, node_ptr, replaced_entry, new_entry, sd, hash, hash_offset, level) ==
  IF replaced.exit # "return" THEN replaced
  ELSE IF replaced.node = Null THEN
    \* *node = std::move(replaced_entry): the tag is set again, _parent is kept
    Return(SetNode(replaced.m, node_ptr,
                   EntryNode(replaced_entry, GetNode(replaced.m, node_ptr).parent)),
           Null, replaced.cause)
  ELSE insertEntry(replaced.m, hf, cnt, node_ptr, new_entry, sd, hash, hash_offset,
                   level + 1)

\* A split that gives the new trie the node itself as its parent.
insertEntry_split_Mut(m, hf, cnt, node_ptr, new_entry, sd, hash, old_entry_hash, hash_offset, level) ==
  LET node == GetNode(m, node_ptr)
      replaced_entry == [key |-> node.key, val |-> node.val]
  IN
  \* node->BitmapTrie(_allocator, node, 2)
  Pick({insertEntry_replaced(replaced, hf, cnt, node_ptr, replaced_entry, new_entry,
                             sd, hash, hash_offset, level)
          : replaced \in
              {Pick({insertEntry(m1, hf, cnt, node_ptr, replaced_entry, sd,
                                 old_entry_hash, hash_offset, level + 1)
                       : m1 \in {Pick({SetNode(a.m, node_ptr,
                                               TrieNode(node_ptr, {}, 2, a.base))
                                         : a \in {Allocate(m, 2)}})}})}})

\* The split of insertEntry: "This new trie will contain the replaced_entry and
\* the new_entry."  sd, hash, old_entry_hash and hash_offset are the advanced ones.
insertEntry_split(m, hf, cnt, node_ptr, new_entry, sd, hash, old_entry_hash, hash_offset, level) ==
  LET node == GetNode(m, node_ptr)
      replaced_entry == [key |-> node.key, val |-> node.val]
  IN
  \* node->BitmapTrie(_allocator, node->parent(), 2); its result is not tested
  Pick({insertEntry_replaced(replaced, hf, cnt, node_ptr, replaced_entry, new_entry,
                             sd, hash, hash_offset, level)
          : replaced \in
              {Pick({insertEntry(m1, hf, cnt, node_ptr, replaced_entry, sd,
                                 old_entry_hash, hash_offset, level + 1)
                       : m1 \in {Pick({SetNode(a.m, node_ptr,
                                               TrieNode(node.parent, {}, 2, a.base))
                                         : a \in {Allocate(m, 2)}})}})}})

insertEntry(m, hf, cnt, trie_node, new_entry, sd, hash, hash_offset, level) ==
  LET trie == GetNode(m, trie_node)
      hash_slice == Slice(hash, hash_offset)
      node_ptr == logicalGet(trie, hash_slice)
      node == GetNode(m, node_ptr)
  IN
  IF level > MaxDepth THEN Stop(m, "overflow")
  ELSE IF ~logicalPositionTaken(trie.bitmap, hash_slice) THEN
    BitmapTrie_insertEntry(m, trie_node, hash_slice, new_entry, trie_node, cnt + 1, level)
  ELSE IF isTrie(node) THEN
    IF insertEntry_sameHash(hash_offset)
      THEN Pick({insertEntry(m, hf, cnt, p, new_entry, sd, hash, hash_offset + 5, level + 1)
                   : p \in {node_ptr}})
      ELSE Pick({insertEntry(m, hf, cnt, p, new_entry, sd2, hash2, 0, level + 1)
                   : p \in {node_ptr}, sd2 \in {next_seed(sd)},
                     hash2 \in {hash32(hf, new_entry.key, next_seed(sd))}})
  ELSE IF node.key = new_entry.key THEN insertEntry_override(m, node_ptr, new_entry)
  ELSE IF insertEntry_sameHash(hash_offset) THEN
    Pick({insertEntry_split(m, hf, cnt, p, new_entry, sd, hash, old_entry_hash,
                            hash_offset + 5, level)
            : p \in {node_ptr}, old_entry_hash \in {hash32(hf, node.key, sd)}})
  ELSE
    Pick({IF insertEntry_collision(hash2, old_entry_hash)
            THEN Return(m, Null, "collision")
            ELSE insertEntry_split(m, hf, cnt, p, new_entry, sd2, hash2, old_entry_hash,
                                   0, level)
            : p \in {node_ptr}, sd2 \in {next_seed(sd)},
              hash2 \in {hash32(hf, new_entry.key, next_seed(sd))},
              old_entry_hash \in {hash32(hf, node.key, next_seed(sd))}})

(***************************************************************************)
(* BitmapTrieTemplate::deallocateRecursively and clear.                    *)
(***************************************************************************)
\* The arrays deallocateRecursively visits from a trie: its own (if (_base))
\* and those of the tries among its first size() cells.
RECURSIVE ArraysOf(_, _)
ArraysOf(m, trie) ==
  LET below == UNION {ArraysOf(m, m.heap[trie.base].cells[i])
                        : i \in {j \in 1..size(trie.bitmap)
                                   : isTrie(m.heap[trie.base].cells[j])}}
  IN IF trie.base = NullBase THEN {} ELSE {trie.base} \cup below

\* A deallocation that frees the array of the trie it is called on and none
\* of the arrays below it.
deallocateRecursively_Mut(m, trie) ==
  [m EXCEPT !.heap = [b \in DOMAIN m.heap \ {trie.base} |-> m.heap[b]]]

deallocateRecursively(m, trie) ==
  [m EXCEPT !.heap = [b \in DOMAIN m.heap \ ArraysOf(m, trie) |-> m.heap[b]]]

\* A clear that frees the arrays and forgets to zero the bitmap.
BitmapTrie_clear_Mut(m, trie_node) ==
  LET trie == GetNode(m, trie_node)
  IN SetNode(deallocateRecursively(m, trie), trie_node,
             TrieNode(trie.parent, trie.bitmap, 0, NullBase))

\* void BitmapTrieTemplate::clear(Allocator &allocator)
BitmapTrie_clear(m, trie_node) ==
  LET trie == GetNode(m, trie_node)
  IN SetNode(deallocateRecursively(m, trie), trie_node,
             TrieNode(trie.parent, {}, 0, NullBase))

(***************************************************************************)
(* The operations.                                                         *)
(***************************************************************************)
NoCall == [op |-> "none", key |-> 0, res |-> "none", cause |-> "none"]

\* No second container, no call of the sizing oracle, no iterator.
NoOther == [alive |-> FALSE]
NoSizing == [required |-> 0, expected_hamt_size |-> 0, level |-> 0, result |-> 0]
NoIterator == [node |-> Null, start |-> Null, steps |-> 0]

\* A constructor that sets the root's capacity and allocates no array.
Constructed_Mut(hf, sd) ==
  [heap |-> [b \in {} |-> Uninit],
   root |-> TrieNode(Null, {}, hamt_trie_allocation_size(1, 1, 0), NullBase),
   allocs |-> 0, failAt |-> 0]

\* HashArrayMappedTrie(size_t n, ...) with n = 1 (the default constructor)
Constructed(hf, sd) ==
  LET m0 == [heap |-> [b \in {} |-> Uninit],
             root |-> TrieNode(Null, {}, 0, NullBase), allocs |-> 0, failAt |-> 0]
      alloc_size == hamt_trie_allocation_size(1, 1, 0)
      a == Allocate(m0, alloc_size)
  IN [a.m EXCEPT !.root = TrieNode(Null, {}, alloc_size, a.base)]

Seeds == {DefaultSeed}

InitHamt ==
  /\ hasher \in Hashers
  /\ seed \in Seeds
  /\ heap = Constructed(hasher, seed).heap
  /\ root = Constructed(hasher, seed).root
  /\ count = 0
  /\ status = "running"
  /\ last = NoCall
  /\ run = 0
  /\ cleared = FALSE
  /\ stored = {}

Init ==
  /\ InitHamt
  /\ other = NoOther
  /\ sizing = NoSizing
  /\ it = NoIterator

\* An insert that counts the calls that returned null as well.
insert_count_Mut(cnt, node) == cnt + 1

\* insert after insertEntry: nullptr is passed on, anything else does _count++
insert_count(cnt, node) == IF node = Null THEN cnt ELSE cnt + 1

\* iterator insert(const value_type &entry)
insert(m, hf, cnt, sd, entry) ==
  insertEntry(m, hf, cnt, RootPtr, entry, sd, hash32(hf, entry.key, sd), 0, 0)

\* Under ConstantFunction the calls are those of parent_test: a run of the
\* distinct keys 0, 1, 2, ...; under the other hashers any key at any time.
Insert(k, v, failAt) ==
  /\ status = "running"
  /\ count < MaxCount
  /\ hasher = "ConstantFunction" => k = run
  /\ run' = IF hasher = "ConstantFunction" THEN run + 1 ELSE run
  /\ \E r \in {insert(Memory(failAt), hasher, count, seed, [key |-> k, val |-> v])} :
     LET returned == r.exit = "return"
     IN /\ heap' = r.m.heap
        /\ root' = r.m.root
        /\ status' = IF returned THEN "running" ELSE r.exit
        /\ count' = IF returned THEN insert_count(count, r.node) ELSE count
        /\ stored' = IF returned /\ r.node # Null
                        THEN {e \in stored : e[1] # k} \cup {<<k, v>>}
                        ELSE stored
        /\ last' = [op |-> "insert", key |-> k,
                    res |-> IF ~returned THEN "none"
                            ELSE IF r.node = Null THEN "null" ELSE "node",
                    cause |-> r.cause]
  /\ UNCHANGED <<seed, hasher, cleared, other, sizing, it>>

\* void clear()
Clear ==
  /\ status = "running"
  /\ \E m \in {BitmapTrie_clear(Memory(0), RootPtr)} :
        /\ heap' = m.heap
        /\ root' = m.root
  /\ count' = 0
  /\ stored' = {}
  /\ last' = [NoCall EXCEPT !.op = "clear"]
  /\ cleared' = TRUE
  /\ UNCHANGED <<seed, hasher, status, run, other, sizing, it>>

\* Which allocator call of an insert returns null: none (0) or the first one.
FailChoices == {0, 1}

Next ==
  \/ \E k \in KeysOf(hasher), v \in Vals, failAt \in FailChoices : Insert(k, v, failAt)
  \/ Clear

Spec == Init /\ [][Next]_vars

(***************************************************************************)
(* Calls of the sizing oracle on their own: any required in 1..32, any     *)
(* level up to MaxLevel, and the expected sizes on both sides of every     *)
(* power of two up to 2^MaxGeneration.                                     *)
(***************************************************************************)
MaxLevel == 6
MaxGeneration == 23

\* assert(required > 0 && required <= 32)
MaxRequired == 32

ExpectedSizes == {Pow2(g) + d : g \in 0..MaxGeneration, d \in {0, 1}}

SizingCalls ==
  [required : 1..MaxRequired, expected_hamt_size : ExpectedSizes,
   level : 0..MaxLevel, result : {0}]

SizingInit ==
  /\ InitHamt
  /\ hasher = "IdentityFunction"
  /\ other = NoOther
  /\ it = NoIterator
  /\ sizing \in SizingCalls

\* uint32_t hamt_trie_allocation_size(required, expected_hamt_size, level)
SizingCall ==
  /\ sizing.result = 0
  /\ sizing' = [sizing EXCEPT !.result =
                  hamt_trie_allocation_size(sizing.required, sizing.expected_hamt_size,
                                            sizing.level)]
  /\ UNCHANGED <<heap, root, count, seed, hasher, status, last, run, cleared, stored, other, it>>

SizingNext == SizingCall

SpecSizing == SizingInit /\ [][SizingNext]_vars

(***************************************************************************)
(* A container with an iterator: keys are inserted, an iterator is made    *)
(* from the node findNode returns for a stored key, and is then advanced.  *)
(***************************************************************************)
MaxSteps == 4

\* NodeTemplate *nextEntryNode() { return this; }
nextEntryNode(node) == node

\* HAMTConstForwardIterator(const Node *node) on findNode(k)
IterAt(k) ==
  /\ status = "running"
  /\ it = NoIterator
  /\ \E node \in {findNode(Memory(0), hasher, seed, k)} :
        /\ node # Null
        /\ it' = [node |-> node, start |-> node, steps |-> 0]
  /\ UNCHANGED <<heap, root, count, seed, hasher, status, last, run, cleared, stored, other, sizing>>

\* HAMTConstForwardIterator &operator++()
IterNext ==
  /\ status = "running"
  /\ it.node # Null
  /\ it.steps < MaxSteps
  /\ it' = [it EXCEPT !.node = nextEntryNode(it.node), !.steps = @ + 1]
  /\ UNCHANGED <<heap, root, count, seed, hasher, status, last, run, cleared, stored, other, sizing>>

IterSteps ==
  \/ \E k \in KeysOf(hasher), v \in Vals : it = NoIterator /\ Insert(k, v, 0)
  \/ \E k \in KeysOf(hasher) : IterAt(k)
  \/ IterNext

SpecIter == Init /\ [][IterSteps]_vars

(***************************************************************************)
(* Two containers a and b of one type in one heap: a is the container of   *)
(* the variables root, count and seed, b is the record other.  Both are    *)
(* filled, then one operation on the pair is made (b = std::move(a),       *)
(* b(std::move(a)), b(a), swaps), and at the end both are destroyed.       *)
(***************************************************************************)
MaxPairCount == 2
MaxOtherCount == 1
MaxSwaps == 2

PairKeys == {0, 1, 32}
OtherKeys == {1, 2}

\* FOC_GET_HASH_SEED may be defined as any expression, e.g. a function call
\* that gives a seed per execution: b is constructed with the seed of a or
\* with another one.
OtherSeeds == {DefaultSeed, next_seed(DefaultSeed)}

NoSnapshot == [taken |-> FALSE]

PairMemory(failAt) ==
  [heap |-> heap, root |-> root, other |-> other.root, allocs |-> 0, failAt |-> failAt]

\* The two containers as they are before the first of a run of swaps.
Snapshot == [root |-> root, count |-> count, seed |-> seed,
             oroot |-> other.root, ocount |-> other.count, oseed |-> other.seed]

Filling == last.op \in {"none", "insert", "construct", "insertB"}

\* a.insert(entry) while the containers are filled
PairInsert(k, v) ==
  /\ Filling
  /\ count < MaxPairCount
  /\ Insert(k, v, 0)

\* HashArrayMappedTrie b;
ConstructOther ==
  /\ status = "running"
  /\ Filling
  /\ ~other.alive
  /\ \E a \in {Allocate(Memory(0), hamt_trie_allocation_size(1, 1, 0))}, sd \in OtherSeeds :
        /\ heap' = a.m.heap
        /\ other' = [alive |-> TRUE,
                     root |-> TrieNode(Null, {}, hamt_trie_allocation_size(1, 1, 0), a.base),
                     count |-> 0, seed |-> sd, stored |-> {},
                     swaps |-> 0, before |-> NoSnapshot]
  /\ last' = [NoCall EXCEPT !.op = "construct"]
  /\ UNCHANGED <<root, count, seed, hasher, status, run, cleared, stored, sizing, it>>

\* b.insert(entry) while the containers are filled
InsertOther(k, v) ==
  /\ status = "running"
  /\ Filling
  /\ other.alive
  /\ other.count < MaxOtherCount
  /\ \E r \in {insertEntry(PairMemory(0), hasher, other.count, OtherPtr, [key |-> k, val |-> v],
                            other.seed, hash32(hasher, k, other.seed), 0, 0)} :
     LET returned == r.exit = "return"
     IN /\ heap' = r.m.heap
        /\ root' = r.m.root
        /\ status' = IF returned THEN "running" ELSE r.exit
        /\ other' = [other EXCEPT
                       !.root = r.m.other,
                       !.count = IF returned THEN insert_count(other.count, r.node) ELSE @,
                       !.stored = IF returned /\ r.node # Null
                                    THEN {e \in @ : e[1] # k} \cup {<<k, v>>} ELSE @]
        /\ last' = [op |-> "insertB", key |-> k,
                    res |-> IF ~returned THEN "none"
                            ELSE IF r.node = Null THEN "null" ELSE "node",
                    cause |-> r.cause]
  /\ UNCHANGED <<count, seed, hasher, run, cleared, stored, sizing, it>>

\* HashArrayMappedTrie &operator=(HashArrayMappedTrie &&other): b = std::move(a)
MoveAssign ==
  /\ status = "running"
  /\ Filling
  /\ other.alive
  /\ \E m \in {deallocateRecursively(PairMemory(0), other.root)} :
        /\ heap' = m.heap
        /\ other' = [other EXCEPT !.count = count, !.seed = seed,
                                  !.root = MoveNode(root), !.stored = stored]
  /\ last' = [NoCall EXCEPT !.op = "moveassign"]
  /\ UNCHANGED <<root, count, seed, hasher, status, run, cleared, stored, sizing, it>>

\* HashArrayMappedTrie(HashArrayMappedTrie &&other): b(std::move(a)), every
\* member initialised from the member of a, the Node member by member
MoveConstruct ==
  /\ status = "running"
  /\ Filling
  /\ ~other.alive
  /\ other' = [alive |-> TRUE, root |-> MoveNode(root), count |-> count, seed |-> seed,
               stored |-> stored, swaps |-> 0, before |-> NoSnapshot]
  /\ last' = [NoCall EXCEPT !.op = "moveconstruct"]
  /\ UNCHANGED <<heap, root, count, seed, hasher, status, run, cleared, stored, sizing, it>>

\* HashArrayMappedTrie(const HashArrayMappedTrie &, const allocator_type &a)
\* : _allocator(a) { assert(false); } - the assertion stops the program; in
\* a build without assertions b is left with _count, _root and _seed never
\* initialised and is no container.
CopyConstruct ==
  /\ status = "running"
  /\ Filling
  /\ ~other.alive
  /\ status' \in {"assert", "uninitialised"}
  /\ last' = [NoCall EXCEPT !.op = "copyconstruct"]
  /\ UNCHANGED <<heap, root, count, seed, hasher, run, cleared, stored, other, sizing, it>>

\* void BitmapTrieTemplate::swap(BitmapTrieTemplate &other)
BitmapTrie_swap(this, that) ==
  [this |-> [this EXCEPT !.bitmap = that.bitmap, !.capacity = that.capacity, !.base = that.base],
   that |-> [that EXCEPT !.bitmap = this.bitmap, !.capacity = this.capacity, !.base = this.base]]

\* A swap that leaves out std::swap(_count, other._count).
Swap_Mut ==
  /\ status = "running"
  /\ other.alive
  /\ last.op \in {"none", "insert", "construct", "insertB", "swap"}
  /\ other.swaps < MaxSwaps
  /\ seed' = other.seed
  /\ \E sw \in {BitmapTrie_swap(root, other.root)} :
        /\ root' = sw.this
        /\ other' = [other EXCEPT !.root = sw.that, !.seed = seed,
                                  !.stored = stored, !.swaps = @ + 1,
                                  !.before = IF @ = NoSnapshot THEN Snapshot ELSE @]
  /\ stored' = other.stored
  /\ last' = [NoCall EXCEPT !.op = "swap"]
  /\ UNCHANGED <<heap, count, hasher, status, run, cleared, sizing, it>>

\* void swap(HashArrayMappedTrie &other): a.swap(b)
Swap ==
  /\ status = "running"
  /\ other.alive
  /\ last.op \in {"none", "insert", "construct", "insertB", "swap"}
  /\ other.swaps < MaxSwaps
  /\ count' = other.count
  /\ seed' = other.seed
  /\ \E sw \in {BitmapTrie_swap(root, other.root)} :
        /\ root' = sw.this
        /\ other' = [other EXCEPT !.root = sw.that, !.count = count, !.seed = seed,
                                  !.stored = stored, !.swaps = @ + 1,
                                  !.before = IF @ = NoSnapshot THEN Snapshot ELSE @]
  /\ stored' = other.stored
  /\ last' = [NoCall EXCEPT !.op = "swap"]
  /\ UNCHANGED <<heap, hasher, status, run, cleared, sizing, it>>

\* Whether deallocateRecursively finds the array of the trie still allocated.
Allocated(m, trie) == trie.base = NullBase \/ trie.base \in DOMAIN m.heap

\* b and then a go out of scope: ~HashArrayMappedTrie() on each.  An array
\* that the first destructor has freed and the second one walks and frees
\* again stops the program.
DestroyBoth ==
  /\ status = "running"
  /\ other.alive
  /\ \E m1 \in {deallocateRecursively(PairMemory(0), other.root)} :
        IF Allocated(m1, root)
          THEN /\ heap' = deallocateRecursively(m1, root).heap
               /\ status' = "exited"
          ELSE /\ heap' = m1.heap
               /\ status' = "doublefree"
  /\ last' = [NoCall EXCEPT !.op = "destroy"]
  /\ UNCHANGED <<root, count, seed, hasher, run, cleared, stored, other, sizing, it>>

PairNext ==
  \/ \E k \in PairKeys, v \in {1} : PairInsert(k, v)
  \/ ConstructOther
  \/ \E k \in OtherKeys, v \in {2} : InsertOther(k, v)
  \/ MoveAssign
  \/ MoveConstruct
  \/ CopyConstruct
  \/ Swap
  \/ DestroyBoth

PairInit == Init /\ hasher = "IdentityFunction"

SpecPair == PairInit /\ [][PairNext]_vars

(***************************************************************************)
(* BitmapTrieTemplate::cloneRecursively and the copy assignment that calls *)
(* it.  As written they name functions NodeTemplate does not declare; they *)
(* are read member by member: stack.push(a, b) pushes the pair, the copy  *)
(* of a Node copies _parent and the entry, and dest_node->BitmapTrie()     *)
(* leaves the _parent of the new trie node to what the call is made to     *)
(* pass.                                                                   *)
(***************************************************************************)
\* What dest_node->BitmapTrie() stores as _parent: null, the _parent of the
\* source node, or the node of the destination trie.
CloneParents == {"null", "source", "dest"}

CloneParent(m, unset, dest, source_node) ==
  CASE unset = "null" -> Null
    [] unset = "source" -> GetNode(m, source_node).parent
    [] unset = "dest" -> dest

\* for (int i = source_size - 1; i >= 0; i--): an entry is copied, a trie is
\* pushed with the destination node that is to receive it.
RECURSIVE cloneCells(_, _, _, _, _, _)
cloneCells(m, dest, source, i, stack, unset) ==
  IF i < 0 THEN [m |-> m, stack |-> stack]
  ELSE
    LET source_node == <<GetNode(m, source).base, i>>
        dest_node == <<GetNode(m, dest).base, i>>
    IN IF isEntry(GetNode(m, source_node))
         THEN Pick({cloneCells(m1, dest, source, i - 1, stack, unset)
                      : m1 \in {SetNode(m, dest_node, GetNode(m, source_node))}})
         ELSE Pick({cloneCells(m1, dest, source, i - 1,
                               Append(stack, <<dest_node, source_node>>), unset)
                      : m1 \in {SetNode(m, dest_node,
                                        TrieNode(CloneParent(m, unset, dest, source_node),
                                                 {}, 0, NullBase))}})

\* while (!stack.empty()): dest->allocate(allocator, source->capacity()) sets
\* _capacity, _bitmap = 0 and _base; the cells of the source are then copied.
RECURSIVE cloneLoop(_, _, _)
cloneLoop(m, stack, unset) ==
  IF stack = <<>> THEN [m |-> m, exit |-> "return"]
  ELSE
    LET pair == stack[Len(stack)]
        dest == pair[1]
        source == pair[2]
        capacity == GetNode(m, source).capacity
        source_size == size(GetNode(m, source).bitmap)
        a == IF capacity = 0 THEN [m |-> m, base |-> NullBase] ELSE Allocate(m, capacity)
        m1 == SetNode(a.m, dest, TrieNode(GetNode(m, dest).parent, {}, capacity, a.base))
    IN IF a.base = NullBase /\ source_size > 0 THEN [m |-> m1, exit |-> "nullwrite"]
       ELSE Pick({cloneLoop(c.m, c.stack, unset)
                    : c \in {cloneCells(m1, dest, source, source_size - 1,
                                        SubSeq(stack, 1, Len(stack) - 1), unset)}})

\* void cloneRecursively(Allocator &allocator, BitmapTrieTemplate &root)
cloneRecursively(m, this, root_trie, unset) ==
  cloneLoop(m, <<<<this, root_trie>>>>, unset)

\* HashArrayMappedTrie &operator=(const HashArrayMappedTrie &other): b = a
CopyAssign(unset) ==
  /\ status = "running"
  /\ Filling
  /\ other.alive
  /\ \E m0 \in {deallocateRecursively(PairMemory(0), other.root)} :
     \E r \in {cloneRecursively([m0 EXCEPT !.other = MoveNode(root)],
                                OtherPtr, RootPtr, unset)} :
        /\ heap' = r.m.heap
        /\ status' = IF r.exit = "return" THEN "running" ELSE r.exit
        /\ other' = [other EXCEPT !.count = count, !.seed = seed,
                                  !.root = r.m.other, !.stored = stored]
  /\ last' = [NoCall EXCEPT !.op = "copyassign"]
  /\ UNCHANGED <<root, count, seed, hasher, run, cleared, stored, sizing, it>>

CloneNext ==
  \/ \E k \in PairKeys, v \in Vals : PairInsert(k, v)
  \/ ConstructOther
  \/ \E k \in OtherKeys, v \in Vals : InsertOther(k, v)
  \/ \E unset \in CloneParents : CopyAssign(unset)

SpecClone == PairInit /\ [][CloneNext]_vars

(***************************************************************************)
(* Inserts into a container whose seed is any of several: FOC_GET_HASH_SEED *)
(* may be defined to give a seed per execution.                            *)
(***************************************************************************)
InitialSeeds == {DefaultSeed, next_seed(DefaultSeed), {}, {0}}

SeededInit ==
  /\ hasher \in Hashers
  /\ seed \in InitialSeeds
  /\ heap = Constructed(hasher, seed).heap
  /\ root = Constructed(hasher, seed).root
  /\ count = 0
  /\ status = "running"
  /\ last = NoCall
  /\ run = 0
  /\ cleared = FALSE
  /\ stored = {}
  /\ other = NoOther /\ sizing = NoSizing /\ it = NoIterator

SeededNext == \E k \in KeysOf(hasher), v \in Vals : Insert(k, v, 0)

SpecSeeded == SeededInit /\ [][SeededNext]_vars

(***************************************************************************)
(* Two containers of one program that are given the same calls: b is       *)
(* constructed like a, and every insert is made on a and then on b.        *)
(***************************************************************************)
\* HashArrayMappedTrie b; with FOC_GET_HASH_SEED giving sd
ConstructTwin(sd) ==
  /\ status = "running"
  /\ ~other.alive
  /\ \E a \in {Allocate(Memory(0), hamt_trie_allocation_size(1, 1, 0))} :
        /\ heap' = a.m.heap
        /\ other' = [alive |-> TRUE,
                     root |-> TrieNode(Null, {}, hamt_trie_allocation_size(1, 1, 0), a.base),
                     count |-> 0, seed |-> sd, stored |-> {}, res |-> "none"]
  /\ last' = [NoCall EXCEPT !.op = "construct"]
  /\ UNCHANGED <<root, count, seed, hasher, status, run, cleared, stored, sizing, it>>

\* b gets a seed of its own.
TwinConstruct_Mut == ConstructTwin(next_seed(seed))

\* b is constructed in the execution in which a was: the same seed.
TwinConstruct == ConstructTwin(seed)

\* a.insert(entry); b.insert(entry); - the second call is not reached when
\* the first stops the program.
TwinInsert(k, v) ==
  /\ status = "running"
  /\ other.alive
  /\ count < MaxCount
  /\ hasher = "ConstantFunction" => k = run
  /\ run' = IF hasher = "ConstantFunction" THEN run + 1 ELSE run
  /\ \E ra \in {insert(PairMemory(0), hasher, count, seed, [key |-> k, val |-> v])} :
       IF ra.exit # "return"
         THEN /\ heap' = ra.m.heap
              /\ root' = ra.m.root
              /\ status' = ra.exit
              /\ last' = [op |-> "insert", key |-> k, res |-> "none", cause |-> ra.cause]
              /\ UNCHANGED <<count, stored, other>>
         ELSE \E rb \in {insertEntry(ra.m, hasher, other.count, OtherPtr,
                                     [key |-> k, val |-> v], other.seed,
                                     hash32(hasher, k, other.seed), 0, 0)} :
              LET returned == rb.exit = "return"
              IN /\ heap' = rb.m.heap
                 /\ root' = rb.m.root
                 /\ status' = IF returned THEN "running" ELSE rb.exit
                 /\ count' = insert_count(count, ra.node)
                 /\ stored' = IF ra.node # Null
                                THEN {e \in stored : e[1] # k} \cup {<<k, v>>}
                                ELSE stored
                 /\ last' = [op |-> "insert", key |-> k,
                             res |-> IF ra.node = Null THEN "null" ELSE "node",
                             cause |-> ra.cause]
                 /\ other' = [other EXCEPT
                       !.root = rb.m.other,
                       !.count = IF returned THEN insert_count(other.count, rb.node) ELSE @,
                       !.stored = IF returned /\ rb.node # Null
                                    THEN {e \in @ : e[1] # k} \cup {<<k, v>>} ELSE @,
                       !.res = IF ~returned THEN "none"
                               ELSE IF rb.node = Null THEN "null" ELSE "node"]
  /\ UNCHANGED <<seed, hasher, cleared, sizing, it>>

TwinNext ==
  \/ TwinConstruct
  \/ \E k \in KeysOf(hasher), v \in Vals : TwinInsert(k, v)

SpecTwin == Init /\ [][TwinNext]_vars

(***************************************************************************)
(* What the properties below speak about.                                  *)
(***************************************************************************)
Running == status = "running"

\* The memory of the current state.
Mem == Memory(0)

\* find(k) in the current state: the value, 0 for nullptr.
Find(k) == find(Mem, hasher, seed, k)

Keys == KeysOf(hasher)

StoredKeys == {e[1] : e \in stored}

\* The nodes below the trie at trie_node, each with its address (ptr), the
\* address of the node whose array holds it (owner) and the <<seed, offset,
\* logical slot>> of every step from the root to it (path); sd and
\* hash_offset are the seed and offset findNode uses in this trie.
RECURSIVE Below(_, _, _, _, _)
BelowSlot(m, trie_node, sd, hash_offset, path, slot) ==
  LET ptr == logicalGet(GetNode(m, trie_node), slot)
      here == Append(path, <<sd, hash_offset, slot>>)
      this == [ptr |-> ptr, owner |-> trie_node, path |-> here]
  IN IF ~isTrie(GetNode(m, ptr)) THEN {this}
     ELSE IF findNode_sameHash(hash_offset)
       THEN {this} \cup Pick({Below(m, p, sd, hash_offset + 5, h) : p \in {ptr}, h \in {here}})
     ELSE {this} \cup Pick({Below(m, p, sd2, 0, h)
                              : p \in {ptr}, sd2 \in {next_seed(sd)}, h \in {here}})

Below(m, trie_node, sd, hash_offset, path) ==
  UNION {BelowSlot(m, trie_node, sd, hash_offset, path, slot)
           : slot \in GetNode(m, trie_node).bitmap}

\* Every node reachable from the root in the current state.
Reachable == Below(Mem, RootPtr, seed, 0, <<>>)

Leaves == {n \in Reachable : isEntry(GetNode(Mem, n.ptr))}

\* The addresses of the reachable tries, the root included.
Interiors == {RootPtr} \cup {n.ptr : n \in {x \in Reachable : isTrie(GetNode(Mem, x.ptr))}}

\* popcount(bitmap) <= capacity <= 32 in every trie, whose array has that
\* capacity and holds constructed nodes in its first popcount(bitmap) cells.
BitmapCapacityOK ==
  \A p \in Interiors :
    LET trie == GetNode(Mem, p)
    IN /\ size(trie.bitmap) <= trie.capacity
       /\ trie.capacity <= 32
       /\ trie.bitmap # {} => trie.base \in DOMAIN heap
       /\ trie.base # NullBase =>
            /\ trie.base \in DOMAIN heap
            /\ heap[trie.base].cap = trie.capacity
            /\ \A i \in 1..size(trie.bitmap) : heap[trie.base].cells[i].kind # "uninit"

\* Every leaf sits, in each of its ancestors, at the slot that the slice of
\* its key's hash names there.
HashPathOK ==
  \A n \in Leaves :
    \A i \in 1..Len(n.path) :
      Slice(hash32(hasher, GetNode(Mem, n.ptr).key, n.path[i][1]), n.path[i][2]) = n.path[i][3]

\* find(k) in the state a step leads to.
FindNext(k) == find([heap |-> heap', root |-> root', allocs |-> 0, failAt |-> 0],
                    hasher', seed', k)

\* Bits 0..29 of the hash of k under the container's seed: the bits that the
\* slices at offsets 0, 5, .., 25 read.
SlicedBits(k) == {i \in hash32(hasher, k, seed) : i < 30}

\* The descent of findNode for k ends at the leaf n: k's slices are those of
\* n's key at every level on the way.
EndsAt(k, n) ==
  \A i \in 1..Len(n.path) :
    Slice(hash32(hasher, k, n.path[i][1]), n.path[i][2]) = n.path[i][3]

(***************************************************************************)
(* The claims.                                                             *)
(***************************************************************************)

\* C1: after any sequence of inserts, find(k) returns the value of the latest
\* insert of k that returned a node, for every such key k; later inserts of
\* other keys (splits, shifts, grown arrays) do not make a key unfindable.
C1_FindAfterInsert == Running => \A e \in stored : Find(e[1]) = e[2]

\* Three keys are stored, the last insert returned a node, a leaf has been
\* split into a trie and that trie's array has been grown since.
C1_Witness ==
  /\ Running
  /\ last.op = "insert" /\ last.res = "node"
  /\ Cardinality(stored) = 3
  /\ \E p \in Interiors \ {RootPtr} : GetNode(Mem, p).capacity > 2
  /\ \A e \in stored : Find(e[1]) = e[2]

\* C2: an insert of a key that is already stored leaves size() unchanged and
\* makes find return the new value.
C2_OverwriteKeepsSize ==
  [][(last'.op = "insert" /\ last'.cause = "overwrite")
       => /\ count' = count
          /\ \A e \in stored' : e[1] = last'.key => FindNext(e[1]) = e[2]]_vars

\* C3: size() is the number of leaves reachable from the root.
C3_CountIsLeafCount == Running => count = Cardinality(Leaves)

\* C4: every node in a trie's array has that trie's node as its parent().
C4_ParentRoundTrip ==
  Running => \A n \in Reachable : GetNode(Mem, n.ptr).parent = n.owner

\* C5: find returns null for every key that no insert since the last clear
\* has stored, also when its slices are those of a stored key at every level.
C5_NoSpuriousHits == Running => \A k \in Keys \ StoredKeys : Find(k) = 0

\* The descent for a key that is not stored ends at the leaf of another key,
\* and find returns null.
C5_Witness ==
  /\ Running
  /\ \E k \in Keys \ StoredKeys : \E n \in Leaves : EndsAt(k, n) /\ Find(k) = 0

\* C6: an insert rejected for equal hashes after the reseed returns null and
\* leaves the count and the whole trie as they were.
C6_CollisionRestores ==
  [][(last'.op = "insert" /\ last'.cause = "collision")
       => /\ last'.res = "null"
          /\ count' = count
          /\ heap' = heap
          /\ root' = root]_vars

\* C7: an insert that returns null changes neither size() nor what find
\* returns for any key, and find of the rejected key returns null.
C7_NullInsertChangesNothing ==
  [][(last'.op = "insert" /\ last'.res = "null")
       => /\ count' = count
          /\ \A k \in Keys : FindNext(k) = Find(k)
          /\ FindNext(last'.key) = 0]_vars

\* The run of 32 distinct keys under the constant hasher is over: its last
\* insert returned null, one key is stored and found, the rejected one is not.
C7_Witness ==
  /\ Running
  /\ hasher = "ConstantFunction" /\ run = 32
  /\ last.op = "insert" /\ last.res = "null" /\ last.cause = "collision"
  /\ count = 1 /\ Cardinality(stored) = 1
  /\ \A e \in stored : Find(e[1]) = e[2]
  /\ Find(last.key) = 0

\* C8: when an allocator call of an insert returns null, insert returns null
\* and count and trie are as before; nothing is written through a null _base.
C8_AllocatorExhaustion ==
  [][(last'.op = "insert" /\ last'.cause \in {"alloc", "nullwrite"})
       => /\ status' = "running"
          /\ last'.res = "null"
          /\ count' = count
          /\ heap' = heap
          /\ root' = root]_vars

\* C9: an insert whose allocations all succeed returns a node or null.
C9_InsertReturns ==
  (last.op = "insert" /\ last.cause \notin {"alloc", "nullwrite"})
    => last.res \in {"node", "null"}

\* C10: clear leaves size() 0, no key found and the root with bitmap 0,
\* capacity 0 and no array.  The container is reusable after it: what is
\* inserted is found, the bitmap/capacity and hash-path invariants hold, the
\* count is the number of leaves as long as no key is inserted twice, and an
\* insert whose allocations succeed returns a node unless a stored key has
\* the same sliced hash bits - which no two keys stored together have, so
\* that keys that were stored together are all accepted again.
C10_ClearAndReuse ==
  /\ last.op = "clear" =>
       /\ count = 0
       /\ root = TrieNode(Null, {}, 0, NullBase)
       /\ \A k \in Keys : Find(k) = 0
  /\ \A k1, k2 \in StoredKeys : k1 # k2 => SlicedBits(k1) # SlicedBits(k2)
  /\ (cleared /\ last.op = "insert" /\ last.res # "node"
        /\ last.cause \notin {"alloc", "nullwrite"})
       => \E k1 \in StoredKeys : k1 # last.key /\ SlicedBits(k1) = SlicedBits(last.key)
  /\ (cleared /\ Running) =>
       /\ \A e \in stored : Find(e[1]) = e[2]
       /\ BitmapCapacityOK
       /\ HashPathOK
       /\ count = Cardinality(stored) => count = Cardinality(Leaves)

\* After a clear three keys have been inserted again and are found, one of
\* them by splitting a leaf.
C10_Witness ==
  /\ cleared /\ Running
  /\ count = 3 /\ Cardinality(stored) = 3 /\ Cardinality(Leaves) = 3
  /\ Interiors # {RootPtr}
  /\ \A e \in stored : Find(e[1]) = e[2]

\* The arrays of the reachable tries.
ReachableArrays == {GetNode(Mem, p).base : p \in Interiors} \ {NullBase}

\* C11: every reachable trie, the root included, has popcount(bitmap) <=
\* capacity <= 32, an array of that capacity (none when the capacity is 0),
\* and constructed nodes in exactly the first popcount(bitmap) cells of it.
C11_BitmapIntegrity ==
  Running =>
    \A p \in Interiors :
      LET trie == GetNode(Mem, p)
      IN /\ size(trie.bitmap) <= trie.capacity
         /\ trie.capacity <= 32
         /\ IF trie.base = NullBase THEN trie.capacity = 0
            ELSE /\ trie.base \in DOMAIN heap
                 /\ heap[trie.base].cap = trie.capacity
                 /\ \A i \in 1..trie.capacity :
                      (heap[trie.base].cells[i].kind # "uninit") <=> (i <= size(trie.bitmap))

\* One trie below the root has been grown and is full, another trie holds
\* nodes and has free cells.
C11_Witness ==
  /\ Running
  /\ \E p \in Interiors \ {RootPtr} :
       GetNode(Mem, p).capacity > 2 /\ size(GetNode(Mem, p).bitmap) = GetNode(Mem, p).capacity
  /\ \E q \in Interiors :
       GetNode(Mem, q).bitmap # {} /\ size(GetNode(Mem, q).bitmap) < GetNode(Mem, q).capacity

\* C17: after any sequence of inserts and clears that returned, null results
\* included, the arrays allocated and not deallocated are the arrays of the
\* reachable tries, no array belongs to two tries (so that the traversal of
\* clear or of the destructor frees each once), and after clear none is left.
C17_NoLeaks ==
  Running =>
    /\ DOMAIN heap = ReachableArrays
    /\ \A p, q \in Interiors :
         (p # q /\ GetNode(Mem, p).base # NullBase) => GetNode(Mem, p).base # GetNode(Mem, q).base
    /\ last.op = "clear" => DOMAIN heap = {}

\* An insert has returned null for equal hashes after the reseed, and the
\* six arrays then allocated are those of the root and of the chain of tries
\* that the call has left.
C17_Witness ==
  /\ Running
  /\ last.op = "insert" /\ last.res = "null" /\ last.cause = "collision"
  /\ Cardinality(DOMAIN heap) = 6
  /\ DOMAIN heap = ReachableArrays

\* ceil(log2(n)) for n >= 1.
CeilLog2(n) == CHOOSE g \in 0..30 : Pow2(g) >= n /\ \A h \in 0..(g - 1) : Pow2(h) < n

Max(a, b) == IF a >= b THEN a ELSE b
Min(a, b) == IF a <= b THEN a ELSE b

\* C15: for every required in 1..32, expected size >= 1 and level >= 0 the
\* sizing oracle returns a capacity c with required <= c <= 32.
C15_SizingRange ==
  sizing.result # 0 => (sizing.required <= sizing.result /\ sizing.result <= 32)

\* The oracle has been called for 32 nodes at a level deeper than 4, where
\* its guess is 1, and has returned 32.
C15_Witness ==
  /\ sizing.required = 32 /\ sizing.level > 4 /\ sizing.expected_hamt_size > 1
  /\ sizing.result = 32

\* C16: the sizing oracle returns max(alloc_sizes[required],
\* alloc_sizes_by_level[min(level, 4)][generation]) with generation =
\* min(22, ceil(log2(expected size))); deeper than level 4 the guess is 1,
\* and the result is never less than alloc_sizes[required].
C16_SizingValue ==
  sizing.result # 0 =>
    LET generation == Min(22, CeilLog2(sizing.expected_hamt_size))
        by_required == alloc_sizes[sizing.required + 1]
        guess == alloc_sizes_by_level[Min(sizing.level, 4) + 1][generation + 1]
    IN /\ sizing.result = Max(by_required, guess)
       /\ sizing.level > 4 => sizing.result = Max(by_required, 1)
       /\ sizing.result >= by_required

\* The oracle has been called for 4 nodes at level 0 with 33 expected
\* entries, just past a power of two: generation 6, guess 29, result 29.
C16_Witness ==
  /\ sizing.required = 4 /\ sizing.level = 0 /\ sizing.expected_hamt_size = 33
  /\ sizing.result = 29

\* C20: operator++ on an iterator at a leaf of a container with two or more
\* entries moves it to another leaf, and once the iterator has been advanced
\* as many times as there are leaves it is the null end iterator.
C20_IteratorAdvance ==
  [][(it.node # Null /\ it'.steps = it.steps + 1 /\ Cardinality(Leaves) >= 2)
       => /\ it'.node # it.node
          /\ it'.steps >= Cardinality(Leaves) => it'.node = Null]_vars

\* The second container: its memory, its find, and the nodes below its root.
PairMem == PairMemory(0)

FindOther(k) ==
  LET node == findLoop(PairMem, hasher, other.root, k, other.seed,
                       hash32(hasher, k, other.seed), 0)
  IN IF node = Null THEN 0 ELSE GetNode(PairMem, node).val

ReachableOther == Below(PairMem, OtherPtr, other.seed, 0, <<>>)

PairMemNext ==
  [heap |-> heap', root |-> root', other |-> other'.root, allocs |-> 0, failAt |-> 0]

FindOtherNext(k) ==
  LET node == findLoop(PairMemNext, hasher', other'.root, k, other'.seed,
                       hash32(hasher', k, other'.seed), 0)
  IN IF node = Null THEN 0 ELSE GetNode(PairMemNext, node).val

Moved == last.op \in {"moveassign", "moveconstruct"}

\* C12: after b has been move-constructed or move-assigned from a, b has the
\* size that a had and finds what a found, and every child of b's root has
\* b's root as its parent.
C12_MoveKeepsContents ==
  Moved =>
    /\ other.count = count
    /\ \A e \in stored : FindOther(e[1]) = e[2]
    /\ \A k \in PairKeys \ StoredKeys : FindOther(k) = 0
    /\ \A n \in ReachableOther :
         n.owner = OtherPtr => GetNode(PairMem, n.ptr).parent = OtherPtr

\* C13: after a move from a to b the root of a is empty (bitmap 0, no array)
\* and no array belongs to both containers; destroying both containers never
\* deallocates an array twice.
C13_MoveTransfersOwnership ==
  /\ Moved =>
       /\ root.bitmap = {}
       /\ root.base = NullBase
       /\ ArraysOf(Mem, root) \cap ArraysOf(PairMem, other.root) = {}
  /\ status # "doublefree"

\* C14: a copy b of a has the size of a and the find result of a for every
\* key, and an insert into the copy changes neither the size of a nor what
\* find returns on a.
C14_CopyIndependence ==
  [][/\ last'.op = "copyconstruct" =>
          /\ status' = "running"
          /\ other'.alive
          /\ other'.count = count'
          /\ \A k \in PairKeys \cup OtherKeys : FindOtherNext(k) = FindNext(k)
     /\ (last.op = "copyconstruct" /\ last'.op = "insertB") =>
          /\ count' = count
          /\ \A k \in PairKeys \cup OtherKeys : FindNext(k) = Find(k)]_vars

RECURSIVE Shape(_, _)
Shape(m, node) ==
  IF isEntry(node) THEN [kind |-> "entry", key |-> node.key, val |-> node.val]
  ELSE IF isTrie(node)
    THEN [kind |-> "trie", bitmap |-> node.bitmap, capacity |-> node.capacity,
          slots |-> [s \in node.bitmap |-> Shape(m, GetNode(m, logicalGet(node, s)))]]
  ELSE [kind |-> "uninit"]

C21_ReseedAtThirty ==
  \A n \in Reachable :
    \A i \in 1..Len(n.path) :
      /\ n.path[i][2] \in {0, 5, 10, 15, 20, 25, 30}
      /\ i > 1 =>
           IF n.path[i - 1][2] = 30
             THEN n.path[i][1] = next_seed(n.path[i - 1][1]) /\ n.path[i][2] = 0
             ELSE n.path[i][1] = n.path[i - 1][1] /\ n.path[i][2] = n.path[i - 1][2] + 5

\* C22: in every state reached by inserts that returned, a node or null,
\* every leaf is reached, in each of its ancestors, through the slot that the
\* slice of its key's hash names under the seed and offset findNode uses at
\* that depth; this includes the old entry that a split has inserted again.
C22_HashPath == Running => HashPathOK

\* An insert has been rejected after six splits: the old entry, inserted
\* again at every split, is a leaf at depth 6 and sits at its slices.
C22_Witness ==
  /\ Running
  /\ last.op = "insert" /\ last.res = "null" /\ last.cause = "collision"
  /\ \E n \in Leaves : Len(n.path) = 6
  /\ HashPathOK

\* C23: in every state reached by inserts that returned, a node or null,
\* and by clear, no trie below the root has bitmap 0, and the root has
\* bitmap 0 only when the container holds no entry.
C23_NoEmptyInterior ==
  Running =>
    /\ \A p \in Interiors \ {RootPtr} : GetNode(Mem, p).bitmap # {}
    /\ root.bitmap = {} => count = 0 /\ stored = {}

\* An insert was rejected for equal hashes and has left a chain of tries
\* below the root, each of them with a child.
C23_Witness ==
  /\ Running
  /\ last.op = "insert" /\ last.res = "null"
  /\ Cardinality(Interiors) >= 6
  /\ \A p \in Interiors : GetNode(Mem, p).bitmap # {}

\* The memory, the reachable nodes and the leaves of the state a step leads to.
MemNext == [heap |-> heap', root |-> root', allocs |-> 0, failAt |-> 0]

ReachableNext == Below(MemNext, RootPtr, seed', 0, <<>>)

LeavesNext == {n \in ReachableNext : isEntry(GetNode(MemNext, n.ptr))}

\* path is the beginning of longer.
IsPrefix(path, longer) ==
  Len(path) <= Len(longer) /\ SubSeq(longer, 1, Len(path)) = path

\* C24: when an insert of k2 that returns a node has met a leaf n holding
\* another key k1, the slot of n holds afterwards a trie of capacity 2 whose
\* parent is the parent n had; k1 and k2 are leaves of one trie, at the first
\* depth below n at which their slices differ; every trie of the chain from
\* the slot of n down to that trie has capacity 2, the last two children and
\* the others one; and no other cell of an array and nothing of the root has
\* changed.
C24_SplitShape ==
  [][\A n \in Leaves :
       (/\ last'.op = "insert" /\ last'.res = "node"
        /\ GetNode(Mem, n.ptr).key # last'.key
        /\ EndsAt(last'.key, n))
       => LET before == GetNode(Mem, n.ptr)
              after == GetNode(MemNext, n.ptr)
              d == Len(n.path)
          IN /\ isTrie(after) /\ after.capacity = 2 /\ after.parent = before.parent
             /\ \E l1, l2 \in LeavesNext :
                  LET e == Len(l1.path)
                  IN /\ GetNode(MemNext, l1.ptr).key = before.key
                     /\ GetNode(MemNext, l2.ptr).key = last'.key
                     /\ l1.owner = l2.owner
                     /\ Len(l2.path) = e /\ e > d
                     /\ IsPrefix(n.path, l1.path)
                     /\ \A i \in 1..(e - 1) :
                          /\ l1.path[i] = l2.path[i]
                          /\ Slice(hash32(hasher, before.key, l1.path[i][1]), l1.path[i][2])
                               = Slice(hash32(hasher, last'.key, l1.path[i][1]), l1.path[i][2])
                     /\ Slice(hash32(hasher, before.key, l1.path[e][1]), l1.path[e][2])
                          # Slice(hash32(hasher, last'.key, l1.path[e][1]), l1.path[e][2])
                     /\ l1.path[e][3] # l2.path[e][3]
                     /\ \A x \in ReachableNext :
                          (Len(x.path) >= d /\ Len(x.path) < e /\ IsPrefix(x.path, l1.path))
                            => /\ isTrie(GetNode(MemNext, x.ptr))
                               /\ GetNode(MemNext, x.ptr).capacity = 2
                               /\ size(GetNode(MemNext, x.ptr).bitmap)
                                    = IF Len(x.path) = e - 1 THEN 2 ELSE 1
             /\ root' = root
             /\ \A b \in DOMAIN heap :
                  /\ b \in DOMAIN heap'
                  /\ heap'[b].cap = heap[b].cap
                  /\ \A i \in 1..heap[b].cap :
                       <<b, i - 1>> # n.ptr => heap'[b].cells[i] = heap[b].cells[i]]_vars

\* An insert has split a leaf below the root into a chain of two tries: the
\* two keys are leaves of the lower one, the upper one has one child.
C24_Witness ==
  /\ Running
  /\ last.op = "insert" /\ last.res = "node"
  /\ \E l1, l2 \in Leaves :
       /\ l1 # l2 /\ l1.owner = l2.owner /\ Len(l1.path) >= 3
       /\ GetNode(Mem, l2.ptr).key = last.key
       /\ \A x \in Reachable :
            (Len(x.path) >= 1 /\ Len(x.path) < Len(l1.path) /\ IsPrefix(x.path, l1.path))
              => /\ GetNode(Mem, x.ptr).capacity = 2
                 /\ size(GetNode(Mem, x.ptr).bitmap)
                      = IF Len(x.path) = Len(l1.path) - 1 THEN 2 ELSE 1

\* Where insertEntry hands the entry to BitmapTrieTemplate::insertEntry: the
\* trie and the free logical slot its descent for key ends at; no trie
\* (Null) when the descent ends at an entry.
RECURSIVE insertPoint(_, _, _, _, _, _, _)
insertPoint(m, hf, trie_node, key, sd, hash, hash_offset) ==
  LET trie == GetNode(m, trie_node)
      hash_slice == Slice(hash, hash_offset)
  IN
  IF ~logicalPositionTaken(trie.bitmap, hash_slice)
    THEN [trie_node |-> trie_node, logical_index |-> hash_slice]
  ELSE IF ~isTrie(GetNode(m, logicalGet(trie, hash_slice)))
    THEN [trie_node |-> Null, logical_index |-> hash_slice]
  ELSE IF insertEntry_sameHash(hash_offset)
    THEN Pick({insertPoint(m, hf, p, key, sd, hash, hash_offset + 5)
                 : p \in {logicalGet(trie, hash_slice)}})
  ELSE Pick({insertPoint(m, hf, p, key, sd2, hash32(hf, key, sd2), 0)
               : p \in {logicalGet(trie, hash_slice)}, sd2 \in {next_seed(sd)}})

\* The number of populated logical slots of bitmap below slot.
SlotsBelow(bitmap, slot) == Cardinality({j \in bitmap : j < slot})

C26_CloneIsCopy ==
  (last.op = "copyassign" /\ status = "running") =>
    /\ Shape(PairMem, other.root) = Shape(PairMem, root)
    /\ ArraysOf(Mem, root) \cap ArraysOf(PairMem, other.root) = {}
    /\ ArraysOf(PairMem, other.root) \subseteq DOMAIN heap
    /\ \A n \in ReachableOther : GetNode(PairMem, n.ptr).parent = n.owner

\* The first n + 1 seeds of the xorshift sequence that starts at sd.
RECURSIVE SeedsFrom(_, _)
SeedsFrom(sd, n) == IF n = 0 THEN {sd} ELSE {sd} \cup SeedsFrom(next_seed(sd), n - 1)

MaxReseeds == 3

\* The low 32 bits of the hasher's values of k1 and k2 are equal.
SameLowHash(k1, k2) == Trunc32(Hash(hasher, k1)) = Trunc32(Hash(hasher, k2))

\* C27: two distinct keys whose hasher values have equal low 32 bits have
\* equal hashes under every seed of the xorshift sequence, and an insert of
\* the second while the first is stored returns null and leaves size() and
\* the stored entries as they were, whatever the initial seed.
C27_EqualHashesRejected ==
  [][\A e \in stored :
       (last'.op = "insert" /\ e[1] # last'.key /\ SameLowHash(e[1], last'.key))
       => /\ \A sd \in SeedsFrom(seed, MaxReseeds) :
               hash32(hasher, e[1], sd) = hash32(hasher, last'.key, sd)
          /\ status' = "running"
          /\ last'.res = "null"
          /\ count' = count
          /\ stored' = stored]_vars

\* Under a seed that is not the default one, 1024 has been rejected after 0
\* (BadHashFunction gives both the same value): size() is 1 and 0 is found.
C27_Witness ==
  /\ Running
  /\ hasher = "BadHashFunction" /\ seed # DefaultSeed
  /\ last.op = "insert" /\ last.res = "null" /\ last.cause = "collision"
  /\ count = 1 /\ StoredKeys = {0} /\ last.key = 1024
  /\ \A e \in stored : Find(e[1]) = e[2]

====
